---------------------------- MODULE Spec2Model ----------------------------
(***************************************************************************)
(* Carbon_date: five scripts that map a calendar date to a "warped" date   *)
(* from NASA GISTEMP temperature anomalies.                                *)
(*                                                                         *)
(*   carbonDate.py     command line, local linear projection (unguarded)   *)
(*   carbonDate3.py    command line, proportional model, baseline 2016     *)
(*   carbonDate4.py    command line, monthly values, gap fill, base 1880   *)
(*   warped_clock.py   GUI, local linear projection (unguarded) + chart    *)
(*   warped_clock2.py  GUI, local linear projection (guarded) + chart      *)
(*                                                                         *)
(* One run of one script is one behaviour.  Python floats are modelled as  *)
(* exact rationals <<numerator, denominator>> in lowest terms, a datetime  *)
(* as a proleptic Gregorian ordinal plus a fraction of a day, and the      *)
(* system clock as one instant that does not advance during the run.       *)
(***************************************************************************)
EXTENDS Integers, Sequences, FiniteSets

VARIABLES
    script,            \* which of the five scripts runs
    pc,                \* control point of the run
    http_status,       \* response.status_code of the GISTEMP request
    csv_rows,          \* the rows of the fetched CSV table
    now,               \* datetime.now()
    input_date,        \* command-line scripts: the date typed at the prompt,
                       \* then the date the script works on
    anomaly_used,      \* command-line scripts: the anomaly looked up
    temperature_data,  \* the parsed list of records
    i,                 \* loop index of calculate_time_warp_data
    months,            \* labels accumulated by calculate_time_warp_data
    warp_rates,        \* rates accumulated by calculate_time_warp_data
    warp_result,       \* outcome of calculate_time_warp_data
    adjust_result,     \* outcome of adjust_date_based_on_anomaly
    monthly_anomalies, \* carbonDate4: the year's twelve monthly values
    derivatives,       \* carbonDate4: the eleven month-to-month differences
    predicted_anomalies, \* carbonDate4: the gap-filled monthly values
    display,           \* what the run shows or prints
    exc                \* the exception that ended the run, "none" otherwise

vars == <<script, pc, http_status, csv_rows, now, input_date, anomaly_used,
          temperature_data,
          i, months, warp_rates, warp_result, adjust_result, monthly_anomalies,
          derivatives, predicted_anomalies, display, exc>>

---------------------------------------------------------------------------
(* Rational arithmetic: the model of Python float arithmetic.              *)

Abs(x) == IF x < 0 THEN -x ELSE x

RECURSIVE GCD(_, _)
GCD(a, b) == IF b = 0 THEN a ELSE GCD(b, a % b)

Rat(n, d) ==
    LET s == IF d < 0 THEN -1 ELSE 1
        g == GCD(Abs(n), Abs(d))
    IN  <<(s * n) \div g, (s * d) \div g>>

RInt(n) == <<n, 1>>
RZero == RInt(0)
RAdd(a, b) == Rat(a[1] * b[2] + b[1] * a[2], a[2] * b[2])
RSub(a, b) == Rat(a[1] * b[2] - b[1] * a[2], a[2] * b[2])
RMul(a, b) == Rat(a[1] * b[1], a[2] * b[2])
\* the caller guards b # 0: Python raises ZeroDivisionError there
RDiv(a, b) == Rat(a[1] * b[2], a[2] * b[1])
RLt(a, b) == a[1] * b[2] < b[1] * a[2]
RLe(a, b) == a[1] * b[2] <= b[1] * a[2]
RFloor(a) == a[1] \div a[2]

---------------------------------------------------------------------------
(* Python values.                                                          *)

PyNone == [t |-> "None", v |-> RZero]
PyFloat(r) == [t |-> "float", v |-> r]
IsNone(x) == x.t = "None"
\* truth value of a float-or-None: None and 0.0 are false
Truthy(x) == x.t = "float" /\ x.v # RZero

---------------------------------------------------------------------------
(* datetime: ordinal day (0001-01-01 is day 1) and a fraction of a day.    *)

IsLeap(y) == y % 4 = 0 /\ (y % 100 # 0 \/ y % 400 = 0)
DaysBeforeYear(y) ==
    (y - 1) * 365 + (y - 1) \div 4 - (y - 1) \div 100 + (y - 1) \div 400
DaysInMonth(y, m) ==
    IF m = 2 THEN (IF IsLeap(y) THEN 29 ELSE 28)
    ELSE IF m \in {4, 6, 9, 11} THEN 30 ELSE 31

RECURSIVE DaysBeforeMonth(_, _)
DaysBeforeMonth(y, m) ==
    IF m = 1 THEN 0 ELSE DaysBeforeMonth(y, m - 1) + DaysInMonth(y, m - 1)

Date(y, m, d) ==
    [ord |-> DaysBeforeYear(y) + DaysBeforeMonth(y, m) + d, frac |-> RZero]

\* datetime.year
YearOf(dt) ==
    CHOOSE y \in (dt.ord \div 366)..(dt.ord \div 365 + 1) :
        DaysBeforeYear(y) < dt.ord /\ dt.ord <= DaysBeforeYear(y + 1)

\* datetime.month
MonthOf(dt) ==
    LET y == YearOf(dt)
        n == dt.ord - DaysBeforeYear(y)
    IN  CHOOSE m \in 1..12 :
            DaysBeforeMonth(y, m) < n /\ n <= DaysBeforeMonth(y, m) + DaysInMonth(y, m)

\* datetime.day
DayOf(dt) ==
    LET y == YearOf(dt)
    IN  dt.ord - DaysBeforeYear(y) - DaysBeforeMonth(y, MonthOf(dt))

\* dt + timedelta(days=r)
AddDays(dt, r) ==
    LET t == RAdd(dt.frac, r)
        f == RFloor(t)
    IN  [ord |-> dt.ord + f, frac |-> RSub(t, RInt(f))]

\* dt.strftime('%Y-%m-%d')
strftime(dt) == <<YearOf(dt), MonthOf(dt), DayOf(dt)>>


---------------------------------------------------------------------------
(* Program constants.                                                      *)

TARGET_YEAR == 2050
TARGET_TEMP == Rat(15, 10)
PARIS_AGREEMENT == 2016
TARGET_YEAR_cd4 == 2100
BASELINE_YEAR_cd4 == 1880
WINDOW == 12
NUM_MONTHS == 12
HTTP_OK == 200

Scripts == {"carbonDate", "carbonDate3", "carbonDate4", "warped_clock", "warped_clock2"}
GuiScripts == {"warped_clock", "warped_clock2"}
AnnualCliScripts == {"carbonDate", "carbonDate3"}

---------------------------------------------------------------------------
(* The fetched CSV table.  A cell is the text of one column: a number      *)
(* written with two decimals (h hundredths of a degree), "***" or "".      *)

Num(h) == [txt |-> "num", h |-> h]
Stars == [txt |-> "***", h |-> 0]
Empty == [txt |-> "", h |-> 0]

\* the handler of the ValueError appends 0.0 for a missing value
ParseFloat_zero_default(cell) ==
    IF cell.txt = "num" THEN PyFloat(Rat(cell.h, 100)) ELSE PyFloat(RZero)

\* float(cell): None stands for the ValueError the callers catch
ParseFloat(cell) ==
    IF cell.txt = "num" THEN PyFloat(Rat(cell.h, 100)) ELSE PyNone

TitleRow == [len |-> 1, isdigit |-> FALSE, year |-> 0,
             monthly |-> <<>>, annual |-> Empty]
HeaderRow == [len |-> 19, isdigit |-> FALSE, year |-> 0,
              monthly |-> <<>>, annual |-> Empty]
DataRow(y, mon, ann) == [len |-> 19, isdigit |-> TRUE, year |-> y,
                         monthly |-> mon, annual |-> ann]

\* Bounds of the input space.
NumRows == 13
MaxMissing == 1
MaxMissingMonths == 2

LastDataYear == TARGET_YEAR + 1
FirstDataYear == LastDataYear - NumRows + 1
DataYears == FirstDataYear..LastDataYear
BaseCells == {-20, 0, 110, 150}
Slopes == {0, 1}

\* a text for a missing value: GISTEMP writes "***", other tables leave it empty
MissingCell(k) == IF k % 2 = 0 THEN Empty ELSE Stars

AnnualCell(y, missing, base, slope) ==
    IF y \in missing THEN MissingCell(y)
    ELSE Num(base + slope * 5 * (y - FirstDataYear))

MonthCell(m, missing, base, slope) ==
    IF m \in missing THEN MissingCell(m)
    ELSE Num(base + slope * 5 * (m - 1))

\* a table whose annual column has gaps at the years in `missing`; the
\* monthly columns, which the annual scripts never read, are left out
AnnualTable(missing, base, slope) ==
    <<TitleRow, HeaderRow>> \o
    [k \in 1..NumRows |->
        LET y == FirstDataYear + k - 1
        IN  DataRow(y, <<>>, AnnualCell(y, missing, base, slope))]

\* a table of the last two years whose last year has gaps at the
\* months in `missing`; the annual column, which carbonDate4.py never reads,
\* is left out
MonthlyTable(missing, base, slope) ==
    <<TitleRow, HeaderRow>> \o
    [k \in 1..2 |->
        LET y == LastDataYear - 2 + k
        IN  DataRow(y,
                    [m \in 1..NUM_MONTHS |->
                        MonthCell(m, IF y = LastDataYear THEN missing ELSE {},
                                  base, slope)],
                    Stars)]

\* a table whose only data row is the year 2024, every month at 1.10 but
\* for gaps at the months in `missing`
ScenarioTable(missing) ==
    <<TitleRow, HeaderRow,
      DataRow(2024, [m \in 1..NUM_MONTHS |-> MonthCell(m, missing, 110, 0)], Stars)>>

MissingYearSets ==
    {s \in SUBSET DataYears : Cardinality(s) <= MaxMissing} \cup {DataYears}
MissingMonthSets ==
    {s \in SUBSET (1..NUM_MONTHS) : Cardinality(s) <= MaxMissingMonths}
        \cup {1..NUM_MONTHS}

AnnualTables ==
    {AnnualTable(ms, b, sl) : ms \in MissingYearSets, b \in BaseCells, sl \in Slopes}
MonthlyTables ==
    {MonthlyTable(ms, b, sl) : ms \in MissingMonthSets, b \in BaseCells, sl \in Slopes}

ScenarioTables == {ScenarioTable(ms) : ms \in MissingMonthSets}

Noon(dt) == [dt EXCEPT !.frac = Rat(1, 2)]
ClockYears == {TARGET_YEAR - 1, TARGET_YEAR, TARGET_YEAR + 1, LastDataYear + WINDOW}
Clocks == {IF y = TARGET_YEAR THEN Noon(Date(y, 12, 31)) ELSE Date(y, 1, 1) :
              y \in ClockYears}
CliClocks == {Noon(Date(TARGET_YEAR, 12, 31)), Date(LastDataYear, 3, 1)}
NoDate == [ord |-> 0, frac |-> RZero]
TypedDates ==
    {Date(y, 1, 1) : y \in {TARGET_YEAR - 1, TARGET_YEAR, LastDataYear + 1}}
        \cup {Date(LastDataYear, 2, 28), NoDate}
TypedMonths == {1, 2, 6, NUM_MONTHS}
TypedMonthDates ==
    {Date(LastDataYear, m, 15) : m \in TypedMonths}
        \cup {Date(LastDataYear - 1, 6, 30), Date(LastDataYear + 1, 1, 1), NoDate}

\* dates typed for the 2024 table: the first and last day of the year, the
\* leap day and a day in between
ScenarioDates ==
    {Date(2024, 1, 1), Date(2024, 2, 29), Date(2024, 8, 31), Date(2024, 12, 31)}

---------------------------------------------------------------------------
(* fetch_global_temperature_data: the parse of the annual column.          *)

IsDataRow(row) == row.len > 1 /\ row.isdigit

parse_annual(rows) ==
    LET keep == SelectSeq(rows, LAMBDA r : IsDataRow(r) /\ ~IsNone(ParseFloat(r.annual)))
    IN  [k \in 1..Len(keep) |->
            [year |-> keep[k].year, anomaly |-> ParseFloat(keep[k].annual).v]]

\* carbonDate4: every data row is kept, its twelve monthly cells parsed
parse_monthly(rows) ==
    LET keep == SelectSeq(rows, IsDataRow)
    IN  [k \in 1..Len(keep) |->
            [year |-> keep[k].year,
             monthly_anomalies |->
                [m \in 1..NUM_MONTHS |-> ParseFloat(keep[k].monthly[m])]]]

\* the first record of `year`, 0 when there is none
RecordIndex(year, data) ==
    IF \E k \in 1..Len(data) : data[k].year = year
    THEN CHOOSE k \in 1..Len(data) :
            data[k].year = year /\ \A j \in 1..(k - 1) : data[j].year # year
    ELSE 0

\* warped_clock.py, warped_clock2.py: the anomaly of `year`, None when absent
get_anomaly_for_year(year, data) ==
    LET k == RecordIndex(year, data)
    IN  IF k = 0 THEN PyNone ELSE PyFloat(data[k].anomaly)


---------------------------------------------------------------------------
(* Local linear projection: carbonDate.py, warped_clock.py,                *)
(* warped_clock2.py.  A call returns [exc, val]: exc is "none" or the      *)
(* exception the call raised.                                              *)

Ret(v) == [exc |-> "none", val |-> v]
Raise(e) == [exc |-> e, val |-> RZero]

DAYS_PER_DEGREE == 365

\* warped_clock.py: no guard; the argument may be None
calculate_expected_anomaly_wc1(current_year, current_anomaly) ==
    LET years_to_2050 == TARGET_YEAR - current_year
    IN  IF IsNone(current_anomaly) THEN Raise("TypeError")
        ELSE IF years_to_2050 = 0 THEN Raise("ZeroDivisionError")
        ELSE LET anomaly_increase == RSub(TARGET_TEMP, current_anomaly.v)
                 shift_per_year == RDiv(anomaly_increase, RInt(years_to_2050))
             IN  Ret(RAdd(current_anomaly.v, shift_per_year))

\* warped_clock2.py: a zero horizon gives a zero shift
calculate_expected_anomaly_wc2(current_year, current_anomaly) ==
    LET years_to_2050 == TARGET_YEAR - current_year
    IN  IF IsNone(current_anomaly) THEN Raise("TypeError")
        ELSE LET anomaly_increase == RSub(TARGET_TEMP, current_anomaly.v)
                 shift_per_year ==
                     IF years_to_2050 # 0
                     THEN RDiv(anomaly_increase, RInt(years_to_2050))
                     ELSE RZero
             IN  Ret(RAdd(current_anomaly.v, shift_per_year))

\* carbonDate.py: no guard; the argument is always a float
calculate_expected_anomaly_cd1(current_year, current_anomaly) ==
    LET years_to_2050 == TARGET_YEAR - current_year
        anomaly_increase == RSub(TARGET_TEMP, current_anomaly)
    IN  IF years_to_2050 = 0 THEN Raise("ZeroDivisionError")
        ELSE Ret(RAdd(current_anomaly,
                      RDiv(anomaly_increase, RInt(years_to_2050))))

\* the outcome of adjust_date_based_on_anomaly
Adjusted(date, diag) ==
    [exc |-> "none", date |-> date, diag |-> diag, adjusted_year |-> RZero]
AdjustRaise(e) ==
    [exc |-> e, date |-> NoDate, diag |-> RZero, adjusted_year |-> RZero]
NotAdjusted == AdjustRaise("pending")

\* the tail shared by the three scripts: difference, day shift, new date
warp_by_difference(date, current_anomaly, expected) ==
    IF expected.exc # "none" THEN AdjustRaise(expected.exc)
    ELSE LET anomaly_difference == RSub(current_anomaly, expected.val)
             days_shift == RMul(anomaly_difference, RInt(DAYS_PER_DEGREE))
         IN  Adjusted(AddDays(date, days_shift), anomaly_difference)

\* warped_clock.py: the lookup result is used unchecked
adjust_date_based_on_anomaly_wc1(data, clock) ==
    LET current_year == YearOf(clock)
        current_anomaly == get_anomaly_for_year(current_year, data)
        expected == calculate_expected_anomaly_wc1(current_year, current_anomaly)
    IN  warp_by_difference(clock, current_anomaly.v, expected)

\* warped_clock2.py: None ends the call with ValueError
adjust_date_based_on_anomaly_wc2(data, clock) ==
    LET current_year == YearOf(clock)
        current_anomaly == get_anomaly_for_year(current_year, data)
    IN  IF IsNone(current_anomaly) THEN AdjustRaise("ValueError")
        ELSE warp_by_difference(clock, current_anomaly.v,
                 calculate_expected_anomaly_wc2(current_year, current_anomaly))

---------------------------------------------------------------------------
(* calculate_time_warp_data, one loop iteration per step.                  *)

warp_year_wc1(current_year, k) == current_year - (k \div 12)
warp_year_wc2(current_year, k) == current_year - k
warp_keep_wc1(anomaly) == Truthy(anomaly)
warp_keep_wc2(anomaly) == ~IsNone(anomaly)

\* the reversal left out: the lists stay newest first
Reverse_omitted(s) == s

\* s[::-1]
Reverse(s) == [k \in 1..Len(s) |-> s[Len(s) + 1 - k]]

WarpPending == [exc |-> "pending", months |-> <<>>, warp_rates |-> <<>>]
WarpReturned(m, w) == [exc |-> "none", months |-> Reverse(m), warp_rates |-> Reverse(w)]
WarpRaised(e) == [exc |-> e, months |-> <<>>, warp_rates |-> <<>>]

\* an exception nobody catches ends warped_clock.py with a traceback;
\* warped_clock2.py's entry point catches it and prints "Error: ..."
Uncaught(e) ==
    /\ exc' = e
    /\ pc' = IF script = "warped_clock2" THEN "error_printed" ELSE "fatal"

NoDisplay == [warped |-> "", ymd |-> <<>>, chart |-> "", printed |-> FALSE]


inputs == <<script, http_status, csv_rows, now>>
cliVars == <<input_date, anomaly_used>>
loopVars == <<i, months, warp_rates, warp_result>>
monthlyVars == <<monthly_anomalies, derivatives, predicted_anomalies>>

---------------------------------------------------------------------------
(* warped_clock.py and warped_clock2.py: the run of the GUI program.       *)

\* warped_clock.py: fetch, any status but 200 raises
Fetch_wc1 ==
    /\ script = "warped_clock" /\ pc = "start"
    /\ IF http_status = HTTP_OK
       THEN /\ temperature_data' = parse_annual(csv_rows)
            /\ pc' = "clock"
            /\ UNCHANGED exc
       ELSE /\ Uncaught("Exception")
            /\ UNCHANGED temperature_data
    /\ UNCHANGED <<inputs, cliVars, loopVars, monthlyVars, adjust_result, display>>

\* warped_clock2.py: fetch, a failed request or an empty table raises
Fetch_wc2 ==
    /\ script = "warped_clock2" /\ pc = "start"
    /\ IF http_status = HTTP_OK /\ parse_annual(csv_rows) # <<>>
       THEN /\ temperature_data' = parse_annual(csv_rows)
            /\ pc' = "clock"
            /\ UNCHANGED exc
       ELSE /\ Uncaught("Exception")
            /\ UNCHANGED temperature_data
    /\ UNCHANGED <<inputs, cliVars, loopVars, monthlyVars, adjust_result, display>>

\* warped_clock.py create_gui_window: the warped date label
ClockDisplay_wc1 ==
    /\ script = "warped_clock" /\ pc = "clock"
    /\ LET r == adjust_date_based_on_anomaly_wc1(temperature_data, now)
       IN  /\ adjust_result' = r
           /\ IF r.exc = "none"
              THEN /\ display' = [display EXCEPT !.warped = "date",
                                                 !.ymd = strftime(r.date)]
                   /\ pc' = "warp_loop"
                   /\ UNCHANGED exc
              ELSE /\ Uncaught(r.exc)
                   /\ UNCHANGED display
    /\ UNCHANGED <<inputs, cliVars, loopVars, monthlyVars, temperature_data>>

\* warped_clock2.py create_gui_window: ValueError becomes the "N/A" label
ClockDisplay_wc2 ==
    /\ script = "warped_clock2" /\ pc = "clock"
    /\ LET r == adjust_date_based_on_anomaly_wc2(temperature_data, now)
       IN  /\ adjust_result' = r
           /\ IF r.exc = "none"
              THEN /\ display' = [display EXCEPT !.warped = "date",
                                                 !.ymd = strftime(r.date)]
                   /\ pc' = "warp_loop"
                   /\ UNCHANGED exc
              ELSE IF r.exc = "ValueError"
              THEN /\ display' = [display EXCEPT !.warped = "N/A (Insufficient data)"]
                   /\ pc' = "warp_loop"
                   /\ UNCHANGED exc
              ELSE /\ Uncaught(r.exc)
                   /\ UNCHANGED display
    /\ UNCHANGED <<inputs, cliVars, loopVars, monthlyVars, temperature_data>>

\* warped_clock.py calculate_time_warp_data: one pass of the loop body
WarpLoop_wc1 ==
    /\ script = "warped_clock" /\ pc = "warp_loop" /\ i < WINDOW
    /\ LET year == warp_year_wc1(YearOf(now), i)
           anomaly == get_anomaly_for_year(year, temperature_data)
           expected == calculate_expected_anomaly_wc1(year, anomaly)
       IN  IF ~warp_keep_wc1(anomaly)
           THEN /\ i' = i + 1
                /\ UNCHANGED <<pc, exc, months, warp_rates, warp_result>>
           ELSE IF expected.exc # "none"
           THEN /\ Uncaught(expected.exc)
                /\ warp_result' = WarpRaised(expected.exc)
                /\ UNCHANGED <<i, months, warp_rates>>
           ELSE /\ warp_rates' = Append(warp_rates,
                        RMul(RSub(anomaly.v, expected.val), RInt(DAYS_PER_DEGREE)))
                /\ months' = Append(months, year)
                /\ i' = i + 1
                /\ UNCHANGED <<pc, exc, warp_result>>
    /\ UNCHANGED <<inputs, cliVars, monthlyVars, temperature_data, adjust_result, display>>

\* warped_clock2.py calculate_time_warp_data: one pass of the loop body
WarpLoop_wc2 ==
    /\ script = "warped_clock2" /\ pc = "warp_loop" /\ i < WINDOW
    /\ LET year == warp_year_wc2(YearOf(now), i)
           anomaly == get_anomaly_for_year(year, temperature_data)
           expected == calculate_expected_anomaly_wc2(year, anomaly)
       IN  IF ~warp_keep_wc2(anomaly)
           THEN /\ i' = i + 1
                /\ UNCHANGED <<pc, exc, months, warp_rates, warp_result>>
           ELSE IF expected.exc # "none"
           THEN /\ Uncaught(expected.exc)
                /\ warp_result' = WarpRaised(expected.exc)
                /\ UNCHANGED <<i, months, warp_rates>>
           ELSE /\ warp_rates' = Append(warp_rates,
                        RMul(RSub(anomaly.v, expected.val), RInt(DAYS_PER_DEGREE)))
                /\ months' = Append(months, year)
                /\ i' = i + 1
                /\ UNCHANGED <<pc, exc, warp_result>>
    /\ UNCHANGED <<inputs, cliVars, monthlyVars, temperature_data, adjust_result, display>>

\* warped_clock.py: the lists are returned reversed, empty or not
WarpReturn_wc1 ==
    /\ script = "warped_clock" /\ pc = "warp_loop" /\ i = WINDOW
    /\ warp_result' = WarpReturned(months, warp_rates)
    /\ pc' = "plot"
    /\ UNCHANGED <<inputs, cliVars, monthlyVars, temperature_data, adjust_result, display,
                   i, months, warp_rates, exc>>

\* warped_clock2.py: empty lists raise ValueError, which create_gui_window
\* catches and replaces by two empty lists
WarpReturn_wc2 ==
    /\ script = "warped_clock2" /\ pc = "warp_loop" /\ i = WINDOW
    /\ warp_result' = IF warp_rates = <<>> THEN WarpRaised("ValueError")
                      ELSE WarpReturned(months, warp_rates)
    /\ pc' = "plot"
    /\ UNCHANGED <<inputs, cliVars, monthlyVars, temperature_data, adjust_result, display,
                   i, months, warp_rates, exc>>

\* the chart, then root.mainloop()
Plot ==
    /\ script \in GuiScripts /\ pc = "plot"
    /\ display' = [display EXCEPT !.chart =
            IF script = "warped_clock2"
               /\ (warp_result.months = <<>> \/ warp_result.warp_rates = <<>>)
            THEN "No Data Available" ELSE "plot"]
    /\ pc' = "mainloop"
    /\ UNCHANGED <<inputs, cliVars, loopVars, monthlyVars, temperature_data, adjust_result, exc>>

\* the user closes the window
CloseWindow ==
    /\ script \in GuiScripts /\ pc = "mainloop"
    /\ pc' = "done"
    /\ UNCHANGED <<inputs, cliVars, loopVars, monthlyVars, temperature_data, adjust_result,
                   display, exc>>

GuiNext ==
    \/ Fetch_wc1 \/ Fetch_wc2
    \/ ClockDisplay_wc1 \/ ClockDisplay_wc2
    \/ WarpLoop_wc1 \/ WarpLoop_wc2
    \/ WarpReturn_wc1 \/ WarpReturn_wc2
    \/ Plot \/ CloseWindow

InitLocals ==
    /\ pc = "start"
    /\ anomaly_used = PyNone
    /\ temperature_data = <<>>
    /\ i = 0 /\ months = <<>> /\ warp_rates = <<>>
    /\ warp_result = WarpPending
    /\ adjust_result = NotAdjusted
    /\ monthly_anomalies = <<>> /\ derivatives = <<>> /\ predicted_anomalies = <<>>
    /\ display = NoDisplay
    /\ exc = "none"

InitResponse(tables) ==
    \/ http_status = HTTP_OK /\ csv_rows \in tables
    \/ http_status = 404 /\ csv_rows = <<TitleRow>>

\* a caller that imported the module calls calculate_time_warp_data(data)
InitWarpCall ==
    /\ script \in GuiScripts
    /\ now \in Clocks
    /\ input_date = NoDate
    /\ http_status = HTTP_OK /\ csv_rows = <<>>
    /\ anomaly_used = PyNone
    /\ temperature_data \in {parse_annual(t) : t \in AnnualTables}
    /\ pc = "warp_loop"
    /\ i = 0 /\ months = <<>> /\ warp_rates = <<>>
    /\ warp_result = WarpPending
    /\ adjust_result = NotAdjusted
    /\ monthly_anomalies = <<>> /\ derivatives = <<>> /\ predicted_anomalies = <<>>
    /\ display = NoDisplay
    /\ exc = "none"

WarpNext == WarpLoop_wc1 \/ WarpLoop_wc2 \/ WarpReturn_wc1 \/ WarpReturn_wc2

InitGui ==
    /\ script \in GuiScripts
    /\ now \in Clocks
    /\ input_date = NoDate
    /\ InitResponse(AnnualTables)
    /\ InitLocals


---------------------------------------------------------------------------
(* Proportional model: carbonDate3.py and carbonDate4.py.                  *)

DAYS_PER_YEAR == Rat(36525, 100)

\* the clamp at the target left out: the line is followed beyond the target
adjusted_year_cd3_unclamped(anomaly) ==
    RAdd(RInt(PARIS_AGREEMENT),
         RMul(RDiv(anomaly, TARGET_TEMP), RInt(TARGET_YEAR - PARIS_AGREEMENT)))

\* carbonDate3.py: the year on the line from (2016, 0) to (2050, 1.5)
adjusted_year_cd3(anomaly) ==
    IF RLe(TARGET_TEMP, anomaly) THEN RInt(TARGET_YEAR)
    ELSE LET proportion == RDiv(anomaly, TARGET_TEMP)
         IN  RAdd(RInt(PARIS_AGREEMENT),
                  RMul(proportion, RInt(TARGET_YEAR - PARIS_AGREEMENT)))

\* the clamp returns the baseline year instead of the target year
adjusted_year_cd4_clamp_baseline(anomaly) ==
    IF RLe(TARGET_TEMP, anomaly) THEN RInt(BASELINE_YEAR_cd4)
    ELSE RAdd(RInt(BASELINE_YEAR_cd4),
              RMul(RDiv(anomaly, TARGET_TEMP),
                   RInt(TARGET_YEAR_cd4 - BASELINE_YEAR_cd4)))

\* carbonDate4.py: the year on the line from (1880, 0) to (2100, 1.5)
adjusted_year_cd4(anomaly) ==
    IF RLe(TARGET_TEMP, anomaly) THEN RInt(TARGET_YEAR_cd4)
    ELSE LET proportion == RDiv(anomaly, TARGET_TEMP)
         IN  RAdd(RInt(BASELINE_YEAR_cd4),
                  RMul(proportion, RInt(TARGET_YEAR_cd4 - BASELINE_YEAR_cd4)))

\* the day shift taken with the 365 days of the linear scripts
warp_by_year_365(date, anomaly, adjusted_year) ==
    LET year_offset == RSub(adjusted_year, RInt(YearOf(date)))
        days_shift == RMul(year_offset, RInt(DAYS_PER_DEGREE))
    IN  [Adjusted(AddDays(date, days_shift), anomaly)
            EXCEPT !.adjusted_year = adjusted_year]

\* the tail shared by the two scripts: year offset, day shift, new date
warp_by_year(date, anomaly, adjusted_year) ==
    LET year_offset == RSub(adjusted_year, RInt(YearOf(date)))
        days_shift == RMul(year_offset, DAYS_PER_YEAR)
    IN  [Adjusted(AddDays(date, days_shift), anomaly)
            EXCEPT !.adjusted_year = adjusted_year]

---------------------------------------------------------------------------
(* carbonDate4.py: monthly derivatives and the gap fill.                   *)

calculate_monthly_derivatives(anomalies) ==
    [k \in 1..(Len(anomalies) - 1) |->
        IF ~IsNone(anomalies[k + 1]) /\ ~IsNone(anomalies[k])
        THEN PyFloat(RSub(anomalies[k + 1].v, anomalies[k].v))
        ELSE PyNone]

\* the loop of predict_missing_data from (1-based) position k on; adding a
\* derivative to a None predecessor raises TypeError
RECURSIVE predict_from(_, _, _)
predict_from(predicted, derivs, k) ==
    IF k > Len(predicted) THEN [exc |-> "none", val |-> predicted]
    ELSE IF IsNone(predicted[k]) /\ ~IsNone(derivs[k - 1])
    THEN IF IsNone(predicted[k - 1]) THEN [exc |-> "TypeError", val |-> predicted]
         ELSE predict_from(
                 [predicted EXCEPT ![k] =
                     PyFloat(RAdd(predicted[k - 1].v, derivs[k - 1].v))],
                 derivs, k + 1)
    ELSE predict_from(predicted, derivs, k + 1)

\* the fill reads the derivative of the transition before the gap
\* (derivatives[i - 2]) and so extrapolates into the gap
RECURSIVE predict_from_previous(_, _, _)
predict_from_previous(predicted, derivs, k) ==
    IF k > Len(predicted) THEN [exc |-> "none", val |-> predicted]
    ELSE IF k > 2 /\ IsNone(predicted[k]) /\ ~IsNone(derivs[k - 2])
    THEN predict_from_previous(
            [predicted EXCEPT ![k] =
                PyFloat(RAdd(predicted[k - 1].v, derivs[k - 2].v))],
            derivs, k + 1)
    ELSE predict_from_previous(predicted, derivs, k + 1)

predict_missing_data_previous(anomalies, derivs) ==
    predict_from_previous(anomalies, derivs, 2)

\* the fill takes an absent derivative as 0 and so carries the previous
\* month's value into the gap
RECURSIVE predict_from_carry(_, _, _)
predict_from_carry(predicted, derivs, k) ==
    IF k > Len(predicted) THEN [exc |-> "none", val |-> predicted]
    ELSE IF IsNone(predicted[k]) /\ ~IsNone(predicted[k - 1])
    THEN predict_from_carry(
            [predicted EXCEPT ![k] =
                PyFloat(RAdd(predicted[k - 1].v, derivs[k - 1].v))],
            derivs, k + 1)
    ELSE predict_from_carry(predicted, derivs, k + 1)

predict_missing_data_carry(anomalies, derivs) ==
    predict_from_carry(anomalies, derivs, 2)

predict_missing_data(anomalies, derivs) == predict_from(anomalies, derivs, 2)

---------------------------------------------------------------------------
(* carbonDate.py, carbonDate3.py, carbonDate4.py: the command-line run.    *)

CliScripts == AnnualCliScripts \cup {"carbonDate4"}

\* adjust_date_based_on_anomaly: no date typed means today
DefaultDate ==
    /\ script \in CliScripts /\ pc = "start"
    /\ input_date' = IF input_date = NoDate THEN now ELSE input_date
    /\ pc' = "fetch"
    /\ UNCHANGED <<inputs, anomaly_used, loopVars, monthlyVars, temperature_data,
                   adjust_result, display, exc>>

\* carbonDate.py, carbonDate3.py get_anomaly_used: the fetch
Fetch_cli ==
    /\ script \in AnnualCliScripts /\ pc = "fetch"
    /\ IF http_status = HTTP_OK
       THEN /\ temperature_data' = parse_annual(csv_rows)
            /\ pc' = "lookup"
            /\ UNCHANGED exc
       ELSE /\ Uncaught("Exception")
            /\ UNCHANGED temperature_data
    /\ UNCHANGED <<inputs, cliVars, loopVars, monthlyVars, adjust_result, display>>

\* carbonDate.py, carbonDate3.py get_anomaly_used: the lookup raises
\* ValueError when the year has no record
Lookup_cli ==
    /\ script \in AnnualCliScripts /\ pc = "lookup"
    /\ LET k == RecordIndex(YearOf(input_date), temperature_data)
       IN  IF k # 0
           THEN /\ anomaly_used' = PyFloat(temperature_data[k].anomaly)
                /\ pc' = "project"
                /\ UNCHANGED exc
           ELSE /\ Uncaught("ValueError")
                /\ UNCHANGED anomaly_used
    /\ UNCHANGED <<inputs, input_date, loopVars, monthlyVars, temperature_data,
                   adjust_result, display>>

\* carbonDate.py adjust_date_based_on_anomaly: the local linear projection
Project_cd1 ==
    /\ script = "carbonDate" /\ pc = "project"
    /\ LET r == warp_by_difference(input_date, anomaly_used.v,
                    calculate_expected_anomaly_cd1(YearOf(input_date),
                                                   anomaly_used.v))
       IN  /\ adjust_result' = r
           /\ IF r.exc = "none"
              THEN pc' = "print" /\ UNCHANGED exc
              ELSE Uncaught(r.exc)
    /\ UNCHANGED <<inputs, cliVars, loopVars, monthlyVars, temperature_data, display>>

\* carbonDate3.py adjust_date_based_on_anomaly: the proportional model
Project_cd3 ==
    /\ script = "carbonDate3" /\ pc = "project"
    /\ adjust_result' = warp_by_year(input_date, anomaly_used.v,
                                     adjusted_year_cd3(anomaly_used.v))
    /\ pc' = "print"
    /\ UNCHANGED <<inputs, cliVars, loopVars, monthlyVars, temperature_data,
                   display, exc>>

\* carbonDate4.py get_monthly_anomalies: the fetch
Fetch_cd4 ==
    /\ script = "carbonDate4" /\ pc = "fetch"
    /\ IF http_status = HTTP_OK
       THEN /\ temperature_data' = parse_monthly(csv_rows)
            /\ pc' = "lookup"
            /\ UNCHANGED exc
       ELSE /\ Uncaught("Exception")
            /\ UNCHANGED temperature_data
    /\ UNCHANGED <<inputs, cliVars, loopVars, monthlyVars, adjust_result, display>>

\* carbonDate4.py get_monthly_anomalies: the lookup
Lookup_cd4 ==
    /\ script = "carbonDate4" /\ pc = "lookup"
    /\ LET k == RecordIndex(YearOf(input_date), temperature_data)
       IN  IF k # 0
           THEN /\ monthly_anomalies' = temperature_data[k].monthly_anomalies
                /\ pc' = "derive"
                /\ UNCHANGED exc
           ELSE /\ Uncaught("ValueError")
                /\ UNCHANGED monthly_anomalies
    /\ UNCHANGED <<inputs, cliVars, loopVars, derivatives, predicted_anomalies,
                   temperature_data, adjust_result, display>>

\* carbonDate4.py: derivatives = calculate_monthly_derivatives(...)
Derive_cd4 ==
    /\ script = "carbonDate4" /\ pc = "derive"
    /\ derivatives' = calculate_monthly_derivatives(monthly_anomalies)
    /\ pc' = "predict"
    /\ UNCHANGED <<inputs, cliVars, loopVars, monthly_anomalies, predicted_anomalies,
                   temperature_data, adjust_result, display, exc>>

\* carbonDate4.py: predicted_anomalies = predict_missing_data(...)
Predict_cd4 ==
    /\ script = "carbonDate4" /\ pc = "predict"
    /\ LET r == predict_missing_data(monthly_anomalies, derivatives)
       IN  IF r.exc = "none"
           THEN /\ predicted_anomalies' = r.val
                /\ pc' = "project"
                /\ UNCHANGED exc
           ELSE /\ Uncaught(r.exc)
                /\ UNCHANGED predicted_anomalies
    /\ UNCHANGED <<inputs, cliVars, loopVars, monthly_anomalies, derivatives,
                   temperature_data, adjust_result, display>>

\* carbonDate4.py: the month's value, then the proportional model; comparing
\* None with the target raises TypeError
Project_cd4 ==
    /\ script = "carbonDate4" /\ pc = "project"
    /\ anomaly_used' = predicted_anomalies[MonthOf(input_date)]
    /\ IF IsNone(anomaly_used')
       THEN /\ adjust_result' = AdjustRaise("TypeError")
            /\ Uncaught("TypeError")
       ELSE /\ adjust_result' = warp_by_year(input_date, anomaly_used'.v,
                                    adjusted_year_cd4(anomaly_used'.v))
            /\ pc' = "print"
            /\ UNCHANGED exc
    /\ UNCHANGED <<inputs, input_date, loopVars, monthlyVars, temperature_data,
                   display>>

\* the entry point prints the anomaly and the adjusted date
Print_cli ==
    /\ script \in CliScripts /\ pc = "print"
    /\ display' = [display EXCEPT !.warped = "date",
                                  !.ymd = strftime(adjust_result.date),
                                  !.printed = TRUE]
    /\ pc' = "done"
    /\ UNCHANGED <<inputs, cliVars, loopVars, monthlyVars, temperature_data,
                   adjust_result, exc>>

CliNext ==
    \/ DefaultDate
    \/ Fetch_cli \/ Lookup_cli \/ Project_cd1 \/ Project_cd3
    \/ Fetch_cd4 \/ Lookup_cd4 \/ Derive_cd4 \/ Predict_cd4 \/ Project_cd4
    \/ Print_cli

\* the clock matters only when no date is typed
InitPrompt(dates) ==
    \/ input_date \in dates \ {NoDate} /\ now = Date(LastDataYear, 3, 1)
    \/ input_date = NoDate /\ now \in CliClocks

InitAnnualCli ==
    /\ script \in AnnualCliScripts
    /\ InitPrompt(TypedDates)
    /\ InitResponse(AnnualTables)
    /\ InitLocals

InitMonthlyCli ==
    /\ script = "carbonDate4"
    /\ \/ InitPrompt(TypedMonthDates) /\ InitResponse(MonthlyTables)
       \/ /\ input_date \in ScenarioDates
          /\ now = Date(LastDataYear, 3, 1)
          /\ http_status = HTTP_OK /\ csv_rows \in ScenarioTables
    /\ InitLocals

\* carbonDate4.py from the point where the year's record has been found,
\* for every pattern of absent months
GapTables ==
    {MonthlyTable(ms, b, sl) :
        ms \in SUBSET (1..NUM_MONTHS), b \in BaseCells, sl \in Slopes}

InitGapFill ==
    /\ script = "carbonDate4"
    /\ now = Date(LastDataYear, 3, 1)
    /\ input_date = Date(LastDataYear, 6, 15)
    /\ http_status = HTTP_OK /\ csv_rows \in GapTables
    /\ anomaly_used = PyNone
    /\ temperature_data = parse_monthly(csv_rows)
    /\ pc = "derive"
    /\ i = 0 /\ months = <<>> /\ warp_rates = <<>>
    /\ warp_result = WarpPending
    /\ adjust_result = NotAdjusted
    /\ monthly_anomalies =
            temperature_data[RecordIndex(YearOf(input_date), temperature_data)]
                .monthly_anomalies
    /\ derivatives = <<>> /\ predicted_anomalies = <<>>
    /\ display = NoDisplay
    /\ exc = "none"

GapFillNext == Derive_cd4 \/ Predict_cd4

InitCli == InitAnnualCli \/ InitMonthlyCli
Init == InitGui \/ InitCli
Next == GuiNext \/ CliNext

\* a run of any of the five scripts
Spec == Init /\ [][Next]_vars
\* a run of warped_clock.py or warped_clock2.py
SpecClock == InitGui /\ [][GuiNext]_vars
\* one call of calculate_time_warp_data, on any parsed table and clock
SpecWarpSeries == InitWarpCall /\ [][WarpNext]_vars
\* a run of carbonDate.py, carbonDate3.py or carbonDate4.py
SpecCli == InitCli /\ [][CliNext]_vars
\* the derivatives and the gap fill of carbonDate4.py, on any gap pattern
SpecGapFill == InitGapFill /\ [][GapFillNext]_vars


---------------------------------------------------------------------------
(* Properties of the rolling warp series (calculate_time_warp_data).       *)

\* calculate_time_warp_data has returned its two lists
WarpSeriesReturned == script \in GuiScripts /\ warp_result.exc = "none"
\* calculate_time_warp_data has ended, by return or by raise
WarpSeriesEnded == script \in GuiScripts /\ warp_result.exc # "pending"

\* the years current_year - offset, offset in 0..N-1
WindowYears == {YearOf(now) - k : k \in 0..(WINDOW - 1)}
HasRecord(y) == \E k \in 1..Len(temperature_data) : temperature_data[k].year = y
RecordedWindowYears == {y \in WindowYears : HasRecord(y)}

\* C1: the rolling warp series returns at most 12 (label, warp_rate) pairs,
\* and its year labels never decrease from one entry to the next (oldest
\* first); in warped_clock2.py, where each year is examined once, they
\* strictly increase.
C1_SeriesBoundedAscending ==
    WarpSeriesReturned =>
        /\ Len(warp_result.months) <= WINDOW
        /\ Len(warp_result.warp_rates) = Len(warp_result.months)
        /\ \A j, k \in 1..Len(warp_result.months) :
                j < k =>
                    /\ warp_result.months[j] <= warp_result.months[k]
                    /\ script = "warped_clock2" =>
                            warp_result.months[j] < warp_result.months[k]

\* C1 witness: warped_clock2.py returned a full window of twelve entries
C1_Witness ==
    /\ WarpSeriesReturned
    /\ script = "warped_clock2"
    /\ Len(warp_result.months) = WINDOW

\* C2: the output holds exactly one entry for each year of the window that
\* has a record, whatever its anomaly, and no entry for any other year.
C2_OneEntryPerRecordedYear ==
    WarpSeriesReturned =>
        /\ \A y \in RecordedWindowYears :
                Cardinality({k \in 1..Len(warp_result.months) :
                                warp_result.months[k] = y}) = 1
        /\ \A k \in 1..Len(warp_result.months) :
                warp_result.months[k] \in RecordedWindowYears

\* C2 as warped_clock2.py implements it; a year without a record never
\* makes the operation raise
C2_OneEntryPerRecordedYear_wc2 ==
    script = "warped_clock2" =>
        /\ C2_OneEntryPerRecordedYear
        /\ warp_result.exc \in {"pending", "none", "ValueError"}

\* C3: when no year of the window has a record, the rolling warp series
\* ends in an error (ValueError stands for InsufficientData) instead of
\* returning empty lists.
C3_EmptyWindowRaises ==
    (WarpSeriesEnded /\ RecordedWindowYears = {}) =>
        warp_result.exc = "ValueError"

\* C3 as warped_clock2.py implements it: the error is raised exactly when
\* no entry was collected
C3_EmptyWindowRaises_wc2 ==
    (WarpSeriesEnded /\ script = "warped_clock2") =>
        /\ (RecordedWindowYears = {}) <=> (warp_result.exc = "ValueError")
        /\ warp_result.exc = "none" => warp_result.months # <<>>

\* C4: once the fetch has succeeded, a run of the GUI program never ends in
\* an exception (the only exception that ends a run is the one the fetch
\* raises, before any date is computed): a missing anomaly of the current
\* year and an empty series are replaced by placeholders and the run goes on
\* to the window.
C4_FetchedRunNeverFatal ==
    (script \in GuiScripts /\ pc \in {"fatal", "error_printed"}) =>
        (exc = "Exception" /\ adjust_result = NotAdjusted)

\* C4 as warped_clock2.py implements it, with the placeholders it shows
C4_FetchedRunNeverFatal_wc2 ==
    script = "warped_clock2" =>
        /\ C4_FetchedRunNeverFatal
        /\ pc \in {"clock", "warp_loop", "plot", "mainloop", "done"} => exc = "none"
        /\ pc \in {"mainloop", "done"} =>
            /\ IsNone(get_anomaly_for_year(YearOf(now), temperature_data))
                    <=> display.warped = "N/A (Insufficient data)"
            /\ RecordedWindowYears = {} <=> display.chart = "No Data Available"

---------------------------------------------------------------------------
(* Properties of the lookup and of the local linear projection.            *)

LinearScripts == {"carbonDate", "warped_clock", "warped_clock2"}
\* the date the single-date computation works on
WorkDate == IF script \in GuiScripts THEN now ELSE input_date
\* the single-date computation has looked the year up
LookupDone ==
    IF script \in GuiScripts THEN adjust_result.exc # "pending"
    ELSE pc \notin {"start", "fetch", "lookup"} /\ exc # "Exception"
\* the single-date computation has reached the projection
ProjectionAttempted == adjust_result.exc # "pending"

\* C5: the lookup of a year without a record fails with an error raised at
\* the lookup (ValueError stands for YearNotFound), and the single-date
\* computation ends in that error: it never goes on to the projection
\* arithmetic.
C5_MissingYearEndsInLookupError ==
    (LookupDone /\ ~HasRecord(YearOf(WorkDate))) =>
        IF script \in GuiScripts
        THEN adjust_result.exc = "ValueError"
        ELSE exc = "ValueError" /\ adjust_result = NotAdjusted

\* C5 as every script but warped_clock.py implements it
C5_MissingYearEndsInLookupError_others ==
    script # "warped_clock" => C5_MissingYearEndsInLookupError

\* C6: with the current year equal to the target year the projection does
\* not fault: the shift per year is 0, the anomaly difference is 0 and the
\* warped date is the input date; the rolling series does not fault either.
C6_ZeroHorizonZeroShift ==
    /\ (script \in LinearScripts /\ ProjectionAttempted
            /\ YearOf(WorkDate) = TARGET_YEAR /\ HasRecord(TARGET_YEAR)) =>
        /\ adjust_result.exc = "none"
        /\ adjust_result.diag = RZero
        /\ adjust_result.date = WorkDate
    /\ warp_result.exc # "ZeroDivisionError"

\* C6 as warped_clock2.py implements it
C6_ZeroHorizonZeroShift_wc2 ==
    script = "warped_clock2" => C6_ZeroHorizonZeroShift

\* C7: whenever the current anomaly equals the target anomaly, whatever the
\* current year and the input date, the anomaly difference is 0 and the
\* warped date is the input date.
C7_OnTargetAnomalyNoShift ==
    (script \in {"carbonDate", "warped_clock2"} /\ ProjectionAttempted
        /\ get_anomaly_for_year(YearOf(WorkDate), temperature_data)
                = PyFloat(TARGET_TEMP)) =>
        /\ adjust_result.exc = "none"
        /\ adjust_result.diag = RZero
        /\ adjust_result.date = WorkDate

\* C7 away from the zero horizon of C6: it holds in both scripts
C7_OnTargetAnomalyNoShift_NonzeroHorizon ==
    YearOf(WorkDate) # TARGET_YEAR => C7_OnTargetAnomalyNoShift

\* C7 as warped_clock2.py implements it, the target year included
C7_OnTargetAnomalyNoShift_wc2 ==
    script = "warped_clock2" => C7_OnTargetAnomalyNoShift

---------------------------------------------------------------------------
(* Properties of the proportional model and of the monthly gap fill.       *)

ProportionalScripts == {"carbonDate3", "carbonDate4"}
\* the proportional model has produced a warped year
Projected == script \in ProportionalScripts /\ adjust_result.exc = "none"
BaselineYear == IF script = "carbonDate3" THEN PARIS_AGREEMENT ELSE BASELINE_YEAR_cd4
TargetYear == IF script = "carbonDate3" THEN TARGET_YEAR ELSE TARGET_YEAR_cd4
AdjustedYearOf(a) ==
    IF script = "carbonDate3" THEN adjusted_year_cd3(a) ELSE adjusted_year_cd4(a)

\* C8: for an anomaly in [0, target] the warped year lies between the
\* baseline year and the target year; it is the baseline year at anomaly 0,
\* the target year at and above the target anomaly, and below the baseline
\* year for a negative anomaly.
C8_WarpedYearBounded ==
    Projected =>
        LET a == anomaly_used.v
            w == adjust_result.adjusted_year
        IN  /\ (RLe(RZero, a) /\ RLe(a, TARGET_TEMP)) =>
                    (RLe(RInt(BaselineYear), w) /\ RLe(w, RInt(TargetYear)))
            /\ a = RZero => w = RInt(BaselineYear)
            /\ RLe(TARGET_TEMP, a) => w = RInt(TargetYear)
            /\ RLt(a, RZero) => RLt(w, RInt(BaselineYear))

\* C8 witness: a warped year strictly between the baseline and the target
C8_Witness ==
    /\ Projected
    /\ RLt(RZero, anomaly_used.v) /\ RLt(anomaly_used.v, TARGET_TEMP)
    /\ RLt(RInt(BaselineYear), adjust_result.adjusted_year)
    /\ RLt(adjust_result.adjusted_year, RInt(TargetYear))

\* anomalies to compare a run's anomaly with: -0.50 to 2.50 in steps of 0.05
ProbeAnomalies == {Rat(5 * h, 100) : h \in -10..50}

\* C9: with the year fixed the warped year never decreases when the anomaly
\* increases, on either side of the clamp.
C9_WarpedYearMonotonic ==
    Projected =>
        \A a2 \in ProbeAnomalies :
            /\ RLe(anomaly_used.v, a2) =>
                    RLe(adjust_result.adjusted_year, AdjustedYearOf(a2))
            /\ RLe(a2, anomaly_used.v) =>
                    RLe(AdjustedYearOf(a2), adjust_result.adjusted_year)

\* C9 witness: an anomaly above the target, so that probes lie on both sides
\* of the clamp
C9_Witness ==
    /\ Projected
    /\ script = "carbonDate4"
    /\ RLt(TARGET_TEMP, anomaly_used.v)
    /\ \E a2 \in ProbeAnomalies : RLt(anomaly_used.v, a2)

\* the gap fill has run
Filled == script = "carbonDate4" /\ Len(predicted_anomalies) = NUM_MONTHS

\* C10: the gap fill is idempotent: the derivatives of its output and a
\* second fill of that output give the output of the first pass again.
C10_GapFillIdempotent ==
    Filled =>
        predict_missing_data(predicted_anomalies,
                             calculate_monthly_derivatives(predicted_anomalies))
            = [exc |-> "none", val |-> predicted_anomalies]

\* C10 witness: an output with two present months followed by two absent
\* ones, the shape an extrapolating fill would change
C10_Witness ==
    /\ Filled
    /\ \E k \in 1..(NUM_MONTHS - 3) :
            /\ ~IsNone(predicted_anomalies[k])
            /\ ~IsNone(predicted_anomalies[k + 1])
            /\ IsNone(predicted_anomalies[k + 2])
            /\ IsNone(predicted_anomalies[k + 3])

---------------------------------------------------------------------------
(* Scenario B: carbonDate4.py on a date of 2024 whose month reads 1.10.    *)

\* carbonDate4.py has warped a date of 2024 from the anomaly 1.10
ScenarioB ==
    /\ script = "carbonDate4" /\ adjust_result.exc = "none"
    /\ YearOf(input_date) = 2024
    /\ anomaly_used = PyFloat(Rat(110, 100))

\* x is c to within tol
About(x, c, tol) == RLe(RSub(c, tol), x) /\ RLe(x, RAdd(c, tol))
\* whole days from the input date to the warped date
DaysShifted == adjust_result.date.ord - input_date.ord

---------------------------------------------------------------------------
(* The gap fill and the month's value in carbonDate4.py.                   *)

\* predict_missing_data has ended, by return or by raise
FillEnded ==
    script = "carbonDate4" /\ Len(derivatives) = NUM_MONTHS - 1 /\ pc # "predict"
\* the monthly values of the input year as the fetch parsed them
RecordMonths ==
    temperature_data[RecordIndex(YearOf(input_date), temperature_data)]
        .monthly_anomalies

\* the fetched row of the input year
InputRow ==
    csv_rows[CHOOSE k \in 1..Len(csv_rows) :
                IsDataRow(csv_rows[k]) /\ csv_rows[k].year = YearOf(input_date)]

InputCell == InputRow.monthly[MonthOf(input_date)]

============================================================================
